---- MODULE Spec2Model ----
(***************************************************************************)
(* Model of the Vertex AI / Anthropic request and response transformation  *)
(* (VertexAIAnthropicConfig in                                             *)
(* litellm/llms/vertex_ai/vertex_ai_partner_models/anthropic/              *)
(* transformation.py).                                                     *)
(*                                                                         *)
(* One behaviour is one call: Init draws the arguments of the call, the    *)
(* action applies the whole method, and the returned value is kept in the  *)
(* state.  Python dictionaries are records whose entries say whether the   *)
(* key is present; Python strings that the code searches are sequences of  *)
(* characters.                                                             *)
(***************************************************************************)
EXTENDS Integers, Sequences, FiniteSets, TLC

VARIABLES
    pc,               \* "call" before the method runs, "returned" after it
    op,               \* which method the call is: "request" or "response"
    req,              \* the arguments of transform_request
    data,             \* the payload transform_request returned
    optional_params,  \* the caller's optional_params mapping (mutable, shared)
    local_messages,   \* transform_request's local messages (after the stripping)
    is_anthropic_format,  \* the classifier's result that selects the branch
    rcall,            \* the arguments of transform_response
    response,         \* the ModelResponse transform_response returned
    hcall,            \* a FileIdPreprocessor and the kwargs its hook is called with
    kwargs,           \* the caller's kwargs mapping
    hresult,          \* what the hook returned, and whether it is the caller's mapping
    repairs,          \* the sanitizer repairs applied so far, in order
    caller_messages   \* the caller's messages sequence

vars == <<pc, op, req, data, optional_params, local_messages, is_anthropic_format,
          rcall, response, hcall, kwargs, hresult, repairs, caller_messages>>

----------------------------------------------------------------------------
(* Bounds of the model. *)

MaxMsgs == 2
MaxChoices == 1
MaxIds == 2
MaxRepairs == 3

----------------------------------------------------------------------------
(* Strings that the code lower-cases and searches. *)

UpperToLower ==
    [c \in {"C", "T", "H", "I", "N", "K", "G"} |->
        CASE c = "C" -> "c" [] c = "T" -> "t" [] c = "H" -> "h"
          [] c = "I" -> "i" [] c = "N" -> "n" [] c = "K" -> "k"
          [] c = "G" -> "g"]

LowerChar(c) == IF c \in DOMAIN UpperToLower THEN UpperToLower[c] ELSE c

\* str.lower()
Lower(s) == [i \in 1..Len(s) |-> LowerChar(s[i])]

\* sub in s
Contains(s, sub) ==
    \E i \in 1..(Len(s) - Len(sub) + 1) : SubSeq(s, i, i + Len(sub) - 1) = sub

\* ",".join(list)
RECURSIVE Join(_)
Join(l) ==
    IF l = <<>> THEN <<>>
    ELSE IF Len(l) = 1 THEN l[1]
    ELSE l[1] \o <<",">> \o Join(Tail(l))

ThinkingMarker == <<"t", "h", "i", "n", "k", "i", "n", "g">>
InterleavedMarker ==
    <<"i", "n", "t", "e", "r", "l", "e", "a", "v", "e", "d", "-">> \o ThinkingMarker

\* Model names and header values used as inputs.
NamePlain == <<"c", "l", "a", "u", "d", "e">>
NameThinking == NamePlain \o <<"-">> \o ThinkingMarker
NameUpper == <<"C", "l", "a", "u", "d", "e", "-", "T", "H", "I", "N", "K", "I", "N", "G">>
NameGemini == <<"g", "e", "m">>
HdrCaching == <<"c", "a", "c", "h", "e">>
HdrInterleaved == <<"I", "n", "t", "e", "r", "l", "e", "a", "v", "e", "d", "-", "T", "h", "i", "n", "k", "i", "n", "g">>

----------------------------------------------------------------------------
(* Values.  A dictionary entry that may be missing carries its presence.   *)

\* tool_choice: shape is "absent" (no key), "none" (None), "str" (a plain
\* string such as "auto") or "dict"; for a dict, type is its "type" entry and
\* tool describes its "tool" entry: "absent", "none" (None), "str" (not a
\* mapping), "noname" (a mapping without name), "emptyname" (name == ""),
\* "named" (a non-empty name).
AbsentToolChoice == [shape |-> "absent", type |-> "absent", tool |-> "absent"]
DictToolChoice(t, tool) == [shape |-> "dict", type |-> t, tool |-> tool]

\* tools: kind is "absent" (no key), "none" (None) or "list".
AbsentTools == [kind |-> "absent", list |-> <<>>]
ToolList(l) == [kind |-> "list", list |-> l]

AbsentThinking == [present |-> FALSE, type |-> "", budget_tokens |-> 0]
Thinking(b) == [present |-> TRUE, type |-> "enabled", budget_tokens |-> b]

AbsentInt == [present |-> FALSE, value |-> 0]
Int_(v) == [present |-> TRUE, value |-> v]

AbsentName == [present |-> FALSE, value |-> <<>>]
Name(n) == [present |-> TRUE, value |-> n]

AbsentSystem == [present |-> FALSE, value |-> <<>>]
AbsentMetadata == [present |-> FALSE, user_id |-> ""]
AbsentBeta == [present |-> FALSE, value |-> {}]

\* Message content: None, a string (text) or a list of blocks (their types).
NoneContent == [kind |-> "none", text |-> "", blocks |-> <<>>]
StrContent(t) == [kind |-> "str", text |-> t, blocks |-> <<>>]
ListContent(b) == [kind |-> "list", text |-> "", blocks |-> b]

Msg(role, content, tb, tc) ==
    [role |-> role, content |-> content, thinking_blocks |-> tb, tool_calls |-> tc]

ReasoningTypes == {"thinking", "redacted_thinking"}

----------------------------------------------------------------------------
(* VertexAIAnthropicConfig *)

VERTEX_SUPPORTED_BETAS ==
    {"tool-search-tool-2025-10-19", "web-search-2025-03-05",
     "computer-use-2024-10-22", "computer-use-2025-01-24"}

DefaultMaxTokens == 8000
MinBudget == 1024
ResponseReserve == 100

\* The test both repairs make on a tool_choice value: a mapping whose type is
\* "tool" and whose tool entry is not a mapping or has no non-empty name.
InvalidToolChoiceNameOnly(tc) ==
    /\ tc.shape = "dict"
    /\ tc.type = "tool"
    /\ tc.tool \in {"absent", "noname"}

InvalidToolChoice(tc) ==
    /\ tc.shape = "dict"
    /\ tc.type = "tool"
    /\ \/ tc.tool \in {"none", "str"}                    \* not isinstance(tool_info, dict)
       \/ tc.tool \in {"absent", "noname", "emptyname"}  \* not tool_info.get("name")

\* _sanitize_tool_choice: whether it copies the mapping (it copies only to drop)
SanitizeCopies(params) ==
    /\ params.tool_choice.shape \notin {"absent", "none"}
    /\ InvalidToolChoice(params.tool_choice)

\* _sanitize_tool_choice: the mapping it returns
_sanitize_tool_choice(params) ==
    IF SanitizeCopies(params)
    THEN [params EXCEPT !.tool_choice = AbsentToolChoice]
    ELSE params

ClassifyWithRedacted(messages) ==
    \E i \in 1..Len(messages) :
        /\ messages[i].content.kind = "list"
        /\ \E j \in 1..Len(messages[i].content.blocks) :
              messages[i].content.blocks[j]
                  \in {"tool_use", "tool_result", "thinking", "redacted_thinking"}

\* _is_already_anthropic_format
_is_already_anthropic_format(messages) ==
    \E i \in 1..Len(messages) :
        /\ messages[i].content.kind = "list"
        /\ Len(messages[i].content.blocks) > 0
        /\ \E j \in 1..Len(messages[i].content.blocks) :
              messages[i].content.blocks[j] \in {"tool_use", "tool_result", "thinking"}

IsReasoningBlock(b) == b \in ReasoningTypes
NotReasoningBlock(b) == b \notin ReasoningTypes

RECURSIVE DropFirstReasoning(_)
DropFirstReasoning(blocks) ==
    IF blocks = <<>> THEN <<>>
    ELSE IF IsReasoningBlock(Head(blocks)) THEN Tail(blocks)
    ELSE <<Head(blocks)>> \o DropFirstReasoning(Tail(blocks))

StripMessageFirstOnly(msg) ==
    IF msg.role = "assistant" /\ msg.content.kind = "list"
                              /\ (\E j \in 1..Len(msg.content.blocks) :
                                     IsReasoningBlock(msg.content.blocks[j]))
    THEN [msg EXCEPT !.content =
              IF DropFirstReasoning(msg.content.blocks) # <<>>
              THEN ListContent(DropFirstReasoning(msg.content.blocks))
              ELSE StrContent("")]
    ELSE msg

StripMessageToNone(msg) ==
    IF msg.role = "assistant" /\ msg.content.kind = "list"
                              /\ (\E j \in 1..Len(msg.content.blocks) :
                                     IsReasoningBlock(msg.content.blocks[j]))
    THEN [msg EXCEPT !.content =
              IF SelectSeq(msg.content.blocks, NotReasoningBlock) # <<>>
              THEN ListContent(SelectSeq(msg.content.blocks, NotReasoningBlock))
              ELSE NoneContent]
    ELSE msg

\* _strip_thinking_from_messages, one message
StripMessage(msg) ==
    IF msg.role # "assistant" THEN msg
    ELSE IF msg.content.kind = "list"
    THEN LET filtered == SelectSeq(msg.content.blocks, NotReasoningBlock)
             has_thinking == \E j \in 1..Len(msg.content.blocks) :
                                 IsReasoningBlock(msg.content.blocks[j])
         IN IF has_thinking
            THEN [msg EXCEPT !.content =
                      IF filtered # <<>> THEN ListContent(filtered) ELSE StrContent("")]
            ELSE msg
    ELSE msg

\* one message, with only "thinking" taken for a reasoning block
StripMessageThinkingOnly(msg) ==
    IF msg.role = "assistant" /\ msg.content.kind = "list"
                              /\ (\E j \in 1..Len(msg.content.blocks) :
                                     msg.content.blocks[j] = "thinking")
    THEN LET keep(b) == b # "thinking"
             filtered == SelectSeq(msg.content.blocks, keep)
         IN [msg EXCEPT !.content =
                 IF filtered # <<>> THEN ListContent(filtered) ELSE StrContent("")]
    ELSE msg

StripThinkingOnly(messages) ==
    [i \in 1..Len(messages) |-> StripMessageThinkingOnly(messages[i])]

\* _strip_thinking_from_messages
_strip_thinking_from_messages(messages) ==
    [i \in 1..Len(messages) |-> StripMessage(messages[i])]

\* tools and len(tools) > 0
ToolsPresent(tools) == tools.kind = "list" /\ Len(tools.list) > 0

----------------------------------------------------------------------------
(* Collaborators inherited from AnthropicConfig. *)

IsSystem(msg) == msg.role = "system"
NotSystem(msg) == msg.role # "system"

\* translate_system_message: the leading system messages, in order
RECURSIVE translate_system_message(_)
translate_system_message(messages) ==
    IF messages = <<>> \/ ~IsSystem(Head(messages)) THEN <<>>
    ELSE <<Head(messages).content>> \o translate_system_message(Tail(messages))

\* add_code_execution_tool: appends the provider-managed code execution tool
\* when tools are present and the collaborator decides to (augment)
add_code_execution_tool(tools, augment) ==
    IF augment /\ tools # <<>> /\ (\A i \in 1..Len(tools) : tools[i] # "code_execution")
    THEN Append(tools, "code_execution")
    ELSE tools

\* is_tool_search_used
is_tool_search_used(tools) ==
    ToolsPresent(tools) /\ \E i \in 1..Len(tools.list) : tools.list[i] = "tool_search"

\* is_web_search_tool_used
is_web_search_tool_used(tools) ==
    ToolsPresent(tools) /\ \E i \in 1..Len(tools.list) : tools.list[i] = "web_search"

ComputerTypes == {"computer_20241022", "computer_20250124", "computer_20251124"}

\* is_computer_tool_used: the type of the first computer tool, "" when none
is_computer_tool_used(tools) ==
    IF ToolsPresent(tools) /\ \E i \in 1..Len(tools.list) : tools.list[i] \in ComputerTypes
    THEN LET first == CHOOSE i \in 1..Len(tools.list) :
                          /\ tools.list[i] \in ComputerTypes
                          /\ \A j \in 1..(i - 1) : tools.list[j] \notin ComputerTypes
         IN tools.list[first]
    ELSE ""

\* get_computer_tool_beta_header
get_computer_tool_beta_header(computer_tool) ==
    CASE computer_tool = "computer_20250124" -> "computer-use-2025-01-24"
      [] computer_tool = "computer_20251124" -> "computer-use-2025-11-24"
      [] OTHER -> "computer-use-2024-10-22"

\* anthropic_messages_pt, one non-system message: role mapping, tool results
\* as user blocks, tool calls as tool_use blocks, text as a text block
ConvertMessage(msg) ==
    LET own == CASE msg.content.kind = "list" -> msg.content.blocks
                 [] msg.content.kind = "str" /\ msg.content.text # "" -> <<"text">>
                 [] OTHER -> <<>>
    IN CASE msg.role = "tool" ->
              Msg("user", ListContent(<<"tool_result">>), FALSE, FALSE)
         [] msg.role = "assistant" ->
              Msg("assistant",
                  ListContent(own \o (IF msg.tool_calls THEN <<"tool_use">> ELSE <<>>)),
                  FALSE, FALSE)
         [] OTHER -> Msg("user", ListContent(own), FALSE, FALSE)

\* anthropic_messages_pt
anthropic_messages_pt(messages) ==
    LET rest == SelectSeq(messages, NotSystem)
    IN [i \in 1..Len(rest) |-> ConvertMessage(rest[i])]

----------------------------------------------------------------------------
(* transform_request *)

\* optional_params["system"] = anthropic_system_message_list, when non-empty
SetSystem(params, messages) ==
    LET sys == translate_system_message(messages)
    IN IF Len(sys) > 0
       THEN [params EXCEPT !.system = [present |-> TRUE, value |-> sys]]
       ELSE params

\* _tools = optional_params.get("tools", []) or []; the augmented list is
\* stored back when it is not empty
SetTools(params, augment) ==
    LET _tools == IF params.tools.kind = "list" THEN params.tools.list ELSE <<>>
        tools == add_code_execution_tool(_tools, augment)
    IN IF Len(tools) > 0 THEN [params EXCEPT !.tools = ToolList(tools)] ELSE params

MergeConfigOverwrite(params, config) ==
    IF config.max_tokens.present
    THEN [params EXCEPT !.max_tokens = config.max_tokens]
    ELSE params

\* for k, v in config.items(): if k not in optional_params: optional_params[k] = v
MergeConfig(params, config) ==
    IF config.max_tokens.present /\ ~params.max_tokens.present
    THEN [params EXCEPT !.max_tokens = config.max_tokens]
    ELSE params

\* optional_params["metadata"] = {"user_id": user_id}, when call metadata has one
SetMetadata(params, litellm_params) ==
    IF litellm_params.user_id # ""
    THEN [params EXCEPT !.metadata = [present |-> TRUE, user_id |-> litellm_params.user_id]]
    ELSE params

\* The parameters after the converter's updates, which are made in place
ConvertedParams(params, messages, r) ==
    SetMetadata(MergeConfig(SetTools(SetSystem(params, messages), r.augment), r.config),
                r.litellm_params)

\* data = {"model": model, "messages": ..., **optional_params}
BuildData(model, messages, params) ==
    [model |-> IF params.model.present THEN params.model ELSE Name(model),
     messages |-> messages,
     tool_choice |-> params.tool_choice,
     tools |-> params.tools,
     thinking |-> params.thinking,
     max_tokens |-> params.max_tokens,
     system |-> params.system,
     metadata |-> params.metadata,
     anthropic_beta |-> params.anthropic_beta]

\* The already-structured branch: the messages are used as they are
StructuredBranch(messages, params, r) ==
    BuildData(r.model, SelectSeq(messages, NotSystem), ConvertedParams(params, messages, r))

\* AnthropicConfig.transform_request, the generic conversion
ParentTransformRequest(messages, params, r) ==
    BuildData(r.model, anthropic_messages_pt(messages), ConvertedParams(params, messages, r))

\* data.pop("model", None)
KeepModel(d) == d

PopModel(d) == [d EXCEPT !.model = AbsentName]

\* The repair of the final payload: an invalid tool_choice is removed
FinalToolChoiceRepair(d) ==
    IF d.tool_choice.shape # "absent" /\ InvalidToolChoice(d.tool_choice)
    THEN [d EXCEPT !.tool_choice = AbsentToolChoice]
    ELSE d

ResolvedModel(r) == r.model

\* The model name the client asked for: call metadata first, then the body of
\* the proxied request
OriginalModel(r) ==
    LET from_params == IF r.litellm_params.model.present
                       THEN r.litellm_params.model.value ELSE r.model
    IN IF r.litellm_params.body_model.present
       THEN r.litellm_params.body_model.value ELSE from_params

\* headers.get("anthropic-beta", "") or "", a list joined with ","
AnthropicBetaHeader(headers) ==
    CASE headers.kind = "str" -> headers.str
      [] headers.kind = "list" -> Join(headers.list)
      [] OTHER -> <<>>

ThinkingRequestedIgnoringTools(d, params, r) ==
    \/ Contains(Lower(OriginalModel(r)), ThinkingMarker)
    \/ Contains(Lower(AnthropicBetaHeader(r.headers)), ThinkingMarker)
    \/ d.thinking.present

\* thinking_requested
ThinkingRequested(d, params, r) ==
    IF ToolsPresent(params.tools) THEN FALSE
    ELSE \/ Contains(Lower(OriginalModel(r)), ThinkingMarker)
         \/ Contains(Lower(AnthropicBetaHeader(r.headers)), ThinkingMarker)
         \/ Contains(Lower(AnthropicBetaHeader(r.headers)), InterleavedMarker)
         \/ d.thinking.present

IsAssistant(msg) == msg.role = "assistant"

\* messages[:-1], the assistant messages among them
PreviousAssistantMessages(messages) ==
    SelectSeq(SubSeq(messages, 1, Len(messages) - 1), IsAssistant)

HasThinkingAnyList(msg) == msg.thinking_blocks \/ msg.content.kind = "list"

\* has_thinking of one previous assistant message
HasThinking(msg) ==
    \/ msg.thinking_blocks
    \/ /\ msg.content.kind = "list"
       /\ \E j \in 1..Len(msg.content.blocks) : msg.content.blocks[j] \in ReasoningTypes

CanEnableThinkingAllMessages(messages) ==
    \A i \in 1..(Len(messages) - 1) : HasThinking(messages[i])

\* can_enable_thinking
CanEnableThinking(messages) ==
    LET prev == PreviousAssistantMessages(messages)
    IN \A i \in 1..Len(prev) : HasThinking(prev[i])

\* int(x * 0.5): truncation toward zero
IntHalf(x) == IF x >= 0 THEN x \div 2 ELSE -((-x) \div 2)

Max(a, b) == IF a >= b THEN a ELSE b
Min(a, b) == IF a <= b THEN a ELSE b

\* thinking_budget
BudgetNoFloor(max_tokens_value) ==
    Min(IntHalf(max_tokens_value), max_tokens_value - ResponseReserve)

ThinkingBudget(max_tokens_value) ==
    Min(Max(IntHalf(max_tokens_value), MinBudget), max_tokens_value - ResponseReserve)

AttachThinkingOverwrite(d, messages, params, r) ==
    IF ThinkingRequested(d, params, r) /\ CanEnableThinking(messages)
    THEN LET max_tokens_value == IF d.max_tokens.present THEN d.max_tokens.value
                                 ELSE DefaultMaxTokens
         IN [d EXCEPT !.thinking = Thinking(ThinkingBudget(max_tokens_value))]
    ELSE d

\* The activation of extended thinking on the payload
AttachThinking(d, messages, params, r) ==
    IF ThinkingRequested(d, params, r) /\ ~d.thinking.present /\ CanEnableThinking(messages)
    THEN LET max_tokens_value == IF d.max_tokens.present THEN d.max_tokens.value
                                 ELSE DefaultMaxTokens
         IN [d EXCEPT !.thinking = Thinking(ThinkingBudget(max_tokens_value))]
    ELSE d

\* beta_set
BetaSetUnfiltered(tools) ==
    (IF is_tool_search_used(tools) THEN {"tool-search-tool-2025-10-19"} ELSE {})
    \cup (IF is_computer_tool_used(tools) # ""
          THEN {get_computer_tool_beta_header(is_computer_tool_used(tools))}
          ELSE {})
    \cup (IF is_web_search_tool_used(tools) THEN {"web-search-2025-03-05"} ELSE {})

BetaSet(tools) ==
    (IF is_tool_search_used(tools) THEN {"tool-search-tool-2025-10-19"} ELSE {})
    \cup (IF /\ is_computer_tool_used(tools) # ""
             /\ get_computer_tool_beta_header(is_computer_tool_used(tools))
                    \in VERTEX_SUPPORTED_BETAS
          THEN {get_computer_tool_beta_header(is_computer_tool_used(tools))}
          ELSE {})
    \cup (IF is_web_search_tool_used(tools) THEN {"web-search-2025-03-05"} ELSE {})

\* data["anthropic_beta"] = list(beta_set), when the set is not empty
SetBetas(d, params) ==
    IF BetaSet(params.tools) # {}
    THEN [d EXCEPT !.anthropic_beta = [present |-> TRUE, value |-> BetaSet(params.tools)]]
    ELSE d

\* The messages the method works on after the first repairs
WorkingMessages(r) ==
    IF ToolsPresent(_sanitize_tool_choice(r.optional_params).tools)
    THEN _strip_thinking_from_messages(r.messages)
    ELSE r.messages

ClassifiedInbound(r) == r.messages

\* The messages the classifier is given: the local messages, after the stripping
ClassifiedMessages(r) == WorkingMessages(r)

\* is_anthropic_format
IsAnthropicFormat(r) == _is_already_anthropic_format(ClassifiedMessages(r))

\* The local optional_params after conversion
FinalParams(r) ==
    ConvertedParams(_sanitize_tool_choice(r.optional_params), WorkingMessages(r), r)

\* transform_request: the payload it returns
transform_request(r) ==
    LET params == _sanitize_tool_choice(r.optional_params)
        messages == WorkingMessages(r)
        converted == IF IsAnthropicFormat(r)
                     THEN StructuredBranch(messages, params, r)
                     ELSE ParentTransformRequest(messages, params, r)
        repaired == FinalToolChoiceRepair(PopModel(converted))
    IN SetBetas(AttachThinking(repaired, messages, FinalParams(r), r), FinalParams(r))

\* transform_request: the caller's optional_params once it has returned (the
\* converter updates the mapping in place unless the sanitizer copied it)
CallerParamsAfter(r) ==
    IF SanitizeCopies(r.optional_params) THEN r.optional_params ELSE FinalParams(r)

\* transform_request: the caller's messages once it has returned (the strip
\* builds a new list of the messages or their copies, the converter filters
\* into a new list)
CallerMessagesAfter(r) == r.messages

----------------------------------------------------------------------------
(* transform_response *)

EmptyContent(c) == c.kind = "none" \/ c.text = ""

\* The repair of one choice: reasoning content is copied into empty content
FixChoiceAlways(ch) ==
    IF ch.has_message /\ ch.reasoning.kind = "str" /\ ch.reasoning.text # ""
    THEN [ch EXCEPT !.content = [kind |-> "str", text |-> ch.reasoning.text]]
    ELSE ch

FixChoice(ch) ==
    IF /\ ch.has_message
       /\ EmptyContent(ch.content)
       /\ ch.reasoning.kind = "str" /\ ch.reasoning.text # ""
    THEN [ch EXCEPT !.content = [kind |-> "str", text |-> ch.reasoning.text]]
    ELSE ch

\* response.model = model
ResponseModelFromBase(c) == c.base.model

ResponseModel(c) == c.model

\* transform_response: the response it returns, from the base converter's
transform_response(c) ==
    [model |-> ResponseModel(c),
     choices |-> [i \in 1..Len(c.base.choices) |-> FixChoice(c.base.choices[i])]]

----------------------------------------------------------------------------
(* FileIdPreprocessor *)

\* A kwargs value: kind is "absent" (no key), "str", "list" (an iterable that
\* is not a string) or "other" (neither); an item of a list is a string or not.
AbsentValue == [kind |-> "absent", str |-> <<>>, items |-> <<>>]
StrValue(v) == [kind |-> "str", str |-> v, items |-> <<>>]
ListValue(l) == [kind |-> "list", str |-> <<>>, items |-> l]
OtherValue == [kind |-> "other", str |-> <<>>, items |-> <<>>]
StrItem(v) == [is_str |-> TRUE, str |-> v]
OtherItem(tag) == [is_str |-> FALSE, str |-> tag]

\* str.strip()
RECURSIVE StripLeft(_)
StripLeft(v) == IF v # <<>> /\ Head(v) = " " THEN StripLeft(Tail(v)) ELSE v

RECURSIVE StripRight(_)
StripRight(v) ==
    IF v # <<>> /\ v[Len(v)] = " " THEN StripRight(SubSeq(v, 1, Len(v) - 1)) ELSE v

Strip(v) == StripRight(StripLeft(v))

\* self._normalizer(value): value.strip() by default, or the callable given
Normalizer(h, v) == IF h.normalizer = "lower" THEN Lower(v) ELSE Strip(v)

\* str.startswith
StartsWith(v, prefix) == Len(prefix) <= Len(v) /\ SubSeq(v, 1, Len(prefix)) = prefix

\* self._required_prefix is neither None nor ""
PrefixSet(h) == h.required_prefix.present /\ h.required_prefix.value # <<>>

ApplyRulesAlwaysPrefix(h, v) ==
    IF PrefixSet(h) THEN h.required_prefix.value \o Normalizer(h, v) ELSE Normalizer(h, v)

\* _apply_rules
_apply_rules(h, v) ==
    LET normalized == Normalizer(h, v)
    IN IF PrefixSet(h) /\ ~StartsWith(normalized, h.required_prefix.value)
       THEN h.required_prefix.value \o normalized
       ELSE normalized

\* _process_iterable, one item
ProcessItem(h, item) == IF item.is_str THEN StrItem(_apply_rules(h, item.str)) ELSE item

\* _process_iterable
_process_iterable(h, values) ==
    [value |-> ListValue([i \in 1..Len(values) |-> ProcessItem(h, values[i])]),
     changed |-> \E i \in 1..Len(values) : ProcessItem(h, values[i]) # values[i]]

\* _process_value
_process_value(h, value) ==
    CASE value.kind = "str" ->
           [value |-> StrValue(_apply_rules(h, value.str)),
            changed |-> _apply_rules(h, value.str) # value.str]
      [] value.kind = "list" -> _process_iterable(h, value.items)
      [] OTHER -> [value |-> value, changed |-> FALSE]

\* updated_kwargs after one key was looked at
ProcessKey(h, value) ==
    IF value.kind # "absent" /\ _process_value(h, value).changed
    THEN _process_value(h, value).value
    ELSE value

\* updated
HookUpdated(h) ==
    \/ h.kwargs.file_id.kind # "absent" /\ _process_value(h, h.kwargs.file_id).changed
    \/ h.kwargs.file_ids.kind # "absent" /\ _process_value(h, h.kwargs.file_ids).changed

\* async_pre_call_deployment_hook: the mapping it returns
async_pre_call_deployment_hook(h) ==
    IF HookUpdated(h)
    THEN [kwargs |-> [h.kwargs EXCEPT !.file_id = ProcessKey(h, h.kwargs.file_id),
                                      !.file_ids = ProcessKey(h, h.kwargs.file_ids)],
          same_object |-> FALSE]
    ELSE [kwargs |-> h.kwargs, same_object |-> TRUE]

\* The caller's kwargs after the hook: it works on dict(kwargs), a copy
CallerKwargsAfter(h) == h.kwargs

----------------------------------------------------------------------------
(* The calls of the model: the arguments Init draws. *)

SeqsUpTo(S, n) == UNION {[1..k -> S] : k \in 0..n}

UserText == Msg("user", StrContent("hi"), FALSE, FALSE)
SystemText == Msg("system", StrContent("sys"), FALSE, FALSE)
AssistantText == Msg("assistant", StrContent("ok"), FALSE, FALSE)
AssistantThinkingField == Msg("assistant", StrContent("ok"), TRUE, FALSE)
AssistantThinking == Msg("assistant", ListContent(<<"thinking", "text">>), FALSE, FALSE)
AssistantRedacted == Msg("assistant", ListContent(<<"redacted_thinking">>), FALSE, FALSE)
AssistantRedactedText ==
    Msg("assistant", ListContent(<<"text", "redacted_thinking", "other">>), FALSE, FALSE)
AssistantToolUse == Msg("assistant", ListContent(<<"text", "tool_use">>), FALSE, FALSE)
AssistantToolCalls == Msg("assistant", NoneContent, FALSE, TRUE)
UserToolResult == Msg("user", ListContent(<<"tool_result">>), FALSE, FALSE)
UserThinking == Msg("user", ListContent(<<"thinking">>), FALSE, FALSE)
ToolText == Msg("tool", StrContent("res"), FALSE, FALSE)

MessageMenu ==
    {UserText, SystemText, AssistantText, AssistantThinkingField, AssistantThinking,
     AssistantRedacted, AssistantRedactedText, AssistantToolUse, AssistantToolCalls,
     UserToolResult, UserThinking, ToolText}

MessageLists == SeqsUpTo(MessageMenu, MaxMsgs)

ShortMessageLists ==
    {<<UserText>>, <<SystemText, UserText>>, <<AssistantText, UserText>>,
     <<AssistantThinking, UserText>>, <<AssistantToolUse, UserToolResult>>}

ToolChoices ==
    {AbsentToolChoice,
     [shape |-> "none", type |-> "absent", tool |-> "absent"],
     [shape |-> "str", type |-> "absent", tool |-> "absent"],
     DictToolChoice("auto", "absent")}
    \cup {DictToolChoice("tool", t) :
            t \in {"absent", "none", "str", "noname", "emptyname", "named"}}

FewToolChoices ==
    {AbsentToolChoice, DictToolChoice("tool", "emptyname"), DictToolChoice("tool", "named")}

ToolsMenu ==
    {AbsentTools, [kind |-> "none", list |-> <<>>], ToolList(<<>>),
     ToolList(<<"function">>), ToolList(<<"tool_search">>), ToolList(<<"web_search">>),
     ToolList(<<"computer_20241022">>), ToolList(<<"computer_20250124">>),
     ToolList(<<"computer_20251124">>),
     ToolList(<<"function", "computer_20251124", "web_search">>),
     ToolList(<<"computer_20251124", "computer_20250124">>),
     ToolList(<<"tool_search", "computer_20241022", "web_search">>)}

FewTools ==
    {AbsentTools, ToolList(<<>>), ToolList(<<"function">>),
     ToolList(<<"computer_20251124", "web_search">>)}

MaxTokensMenu ==
    {AbsentInt} \cup
    {Int_(v) : v \in {-7, 50, 500, 1123, 1124, 2047, 2048, 2049, 4003, 8000, 8001, 8003}}

HeadersMenu ==
    {[kind |-> "absent", str |-> <<>>, list |-> <<>>],
     [kind |-> "str", str |-> HdrCaching, list |-> <<>>],
     [kind |-> "str", str |-> HdrInterleaved, list |-> <<>>],
     [kind |-> "list", str |-> <<>>, list |-> <<HdrCaching, HdrInterleaved>>]}

NoHeaders == [kind |-> "absent", str |-> <<>>, list |-> <<>>]

Params(tc, tools, th, mt, m, beta) ==
    [tool_choice |-> tc, tools |-> tools, thinking |-> th, max_tokens |-> mt,
     model |-> m, system |-> AbsentSystem, metadata |-> AbsentMetadata,
     anthropic_beta |-> beta]

LitellmParams(m, body, uid) == [model |-> m, body_model |-> body, user_id |-> uid]

NoConfig == [max_tokens |-> AbsentInt]
DefaultConfig == [max_tokens |-> Int_(4096)]

Request(model, messages, params, lp, headers, config, augment) ==
    [model |-> model, messages |-> messages, optional_params |-> params,
     litellm_params |-> lp, headers |-> headers, config |-> config,
     augment |-> augment]

\* Conversations against tools, declared reasoning and tool_choice
ConversationRequest(r) ==
    \E m \in {NamePlain, NameThinking}, msgs \in MessageLists, tc \in FewToolChoices,
        t \in FewTools, th \in {AbsentThinking, Thinking(2000)}, aug \in BOOLEAN :
        r = Request(m, msgs, Params(tc, t, th, Int_(8000), AbsentName, AbsentBeta),
                    LitellmParams(AbsentName, AbsentName, ""), NoHeaders, NoConfig, aug)

\* Every tool_choice shape in both conversion branches
ToolChoiceRequest(r) ==
    \E msgs \in ShortMessageLists, tc \in ToolChoices,
        t \in {AbsentTools, ToolList(<<"function">>)}, m \in {AbsentName, Name(NameGemini)},
        cfg \in {NoConfig, DefaultConfig}, aug \in BOOLEAN :
        r = Request(NameThinking, msgs, Params(tc, t, AbsentThinking, AbsentInt, m, AbsentBeta),
             LitellmParams(AbsentName, AbsentName, ""), NoHeaders, cfg, aug)

\* Reasoning signals and budgets
ReasoningRequest(r) ==
    \E m \in {NamePlain, NameThinking}, msgs \in ShortMessageLists,
        t \in {AbsentTools, ToolList(<<>>)}, th \in {AbsentThinking, Thinking(2000)},
        mt \in MaxTokensMenu, lm \in {AbsentName, Name(NamePlain), Name(NameUpper)},
        bm \in {AbsentName, Name(NamePlain), Name(NameThinking)},
        h \in HeadersMenu, cfg \in {NoConfig, DefaultConfig} :
        r = Request(m, msgs, Params(AbsentToolChoice, t, th, mt, AbsentName, AbsentBeta),
             LitellmParams(lm, bm, ""), h, cfg, FALSE)

\* Tool kinds, augmentation, call metadata
ToolRequest(r) ==
    \E m \in {NamePlain, NameThinking}, msgs \in ShortMessageLists, t \in ToolsMenu,
        th \in {AbsentThinking, Thinking(2000)}, om \in {AbsentName, Name(NameGemini)},
        b \in {AbsentBeta, [present |-> TRUE, value |-> {"prompt-caching-2024-07-31"}]},
        uid \in {"", "u1"}, aug \in BOOLEAN :
        r = Request(m, msgs, Params(AbsentToolChoice, t, th, Int_(8000), om, b),
             LitellmParams(AbsentName, AbsentName, uid), NoHeaders, NoConfig, aug)

\* Longer histories: several assistant turns, system messages among
\* structured ones
LongMessageLists ==
    {<<AssistantThinking, UserText, AssistantRedacted, UserText>>,
     <<AssistantThinking, UserText, AssistantText, UserText>>,
     <<AssistantText, UserText, AssistantThinkingField, UserText>>,
     <<SystemText, UserText, AssistantThinkingField, ToolText, UserThinking, UserText>>,
     <<UserText, AssistantThinking, UserText>>,
     <<SystemText, AssistantToolUse, UserToolResult>>,
     <<SystemText, UserText, SystemText, AssistantToolUse, UserToolResult, UserText>>}

HistoryRequest(r) ==
    \E m \in {NamePlain, NameThinking}, msgs \in LongMessageLists,
        t \in {AbsentTools, ToolList(<<"function">>)},
        th \in {AbsentThinking, Thinking(2000), Thinking(10)},
        mt \in {AbsentInt, Int_(8000)}, uid \in {"", "u1"},
        h \in {NoHeaders, [kind |-> "str", str |-> HdrInterleaved, list |-> <<>>]},
        cfg \in {NoConfig, DefaultConfig} :
        r = Request(m, msgs, Params(AbsentToolChoice, t, th, mt, AbsentName, AbsentBeta),
             LitellmParams(AbsentName, AbsentName, uid), h, cfg, FALSE)

\* The arguments the two repairs are applied to
AssistantTwoReasoning ==
    Msg("assistant", ListContent(<<"thinking", "text", "redacted_thinking">>), TRUE, FALSE)

RepairMessageLists ==
    ShortMessageLists \cup LongMessageLists
        \cup {<<AssistantTwoReasoning, UserText>>, <<AssistantRedacted, AssistantRedactedText>>,
              <<AssistantToolCalls, ToolText, AssistantTwoReasoning, AssistantRedacted>>}

RepairRequest(r) ==
    \E msgs \in RepairMessageLists, tc \in ToolChoices,
        t \in {AbsentTools, ToolList(<<"function">>)} :
        r = Request(NamePlain, msgs,
                    Params(tc, t, AbsentThinking, AbsentInt, AbsentName, AbsentBeta),
                    LitellmParams(AbsentName, AbsentName, ""), NoHeaders, NoConfig, FALSE)

IsRequest(r) ==
    \/ ConversationRequest(r) \/ ToolChoiceRequest(r) \/ ReasoningRequest(r)
    \/ ToolRequest(r) \/ HistoryRequest(r)

\* The responses the base converter hands back
Contents == {[kind |-> "none", text |-> ""], [kind |-> "str", text |-> ""],
             [kind |-> "str", text |-> "answer"]}
Reasonings == {[kind |-> "absent", text |-> ""], [kind |-> "none", text |-> ""],
               [kind |-> "str", text |-> ""], [kind |-> "str", text |-> "because"]}
Choices ==
    {[has_message |-> hm, content |-> c, reasoning |-> rc] :
        hm \in BOOLEAN, c \in Contents, rc \in Reasonings}

ResponseCalls ==
    {[model |-> m, litellm_params |-> LitellmParams(lm, AbsentName, ""),
      base |-> [model |-> pm, choices |-> chs]] :
        m \in {NamePlain, NameThinking}, lm \in {AbsentName, Name(NamePlain), Name(NameUpper)},
        pm \in {NamePlain, NameGemini}, chs \in SeqsUpTo(Choices, MaxChoices)}

\* File identifiers and the hooks that normalize them
IdPadded == <<" ", "1", " ">>
IdPrefixed == <<"t", "_", "1">>
IdBare == <<"1">>
IdPaddedPrefixed == <<" ", "t", "_", "1">>
IdUpper == <<"T", "_", "1">>
IdStrings == {IdPadded, IdPrefixed, IdBare, IdPaddedPrefixed, IdUpper, <<>>}
IdItems == {StrItem(v) : v \in IdStrings} \cup {OtherItem(<<"7">>)}
IdPrefixes == {AbsentName, Name(<<>>), Name(<<"t", "_">>)}

Kwargs(file_id, file_ids, model) ==
    [file_id |-> file_id, file_ids |-> file_ids, model |-> model]

HookCalls ==
    {[required_prefix |-> p, normalizer |-> n, kwargs |-> Kwargs(fid, fids, NameGemini)] :
        p \in IdPrefixes, n \in {"strip", "lower"},
        fid \in {AbsentValue, OtherValue, ListValue(<<StrItem(IdPadded)>>)}
                    \cup {StrValue(v) : v \in IdStrings},
        fids \in {AbsentValue, OtherValue, StrValue(IdPadded)}
                    \cup {ListValue(l) : l \in SeqsUpTo(IdItems, MaxIds)}}

NoHookCall ==
    [required_prefix |-> AbsentName, normalizer |-> "strip",
     kwargs |-> Kwargs(AbsentValue, AbsentValue, <<>>)]
NoHookResult == [kwargs |-> NoHookCall.kwargs, same_object |-> FALSE]

NoRequest ==
    Request(<<>>, <<>>,
            Params(AbsentToolChoice, AbsentTools, AbsentThinking, AbsentInt, AbsentName,
                   AbsentBeta),
            LitellmParams(AbsentName, AbsentName, ""), NoHeaders, NoConfig, FALSE)
NoData == BuildData(<<>>, <<>>, NoRequest.optional_params)
NoResponseCall ==
    [model |-> <<>>, litellm_params |-> LitellmParams(AbsentName, AbsentName, ""),
     base |-> [model |-> <<>>, choices |-> <<>>]]
NoResponse == [model |-> <<>>, choices |-> <<>>]

----------------------------------------------------------------------------
(* The state machine. *)

Init ==
    /\ pc = "call"
    /\ data = NoData
    /\ response = NoResponse
    /\ is_anthropic_format = FALSE
    /\ hresult = NoHookResult
    /\ repairs = <<>>
    /\ \/ /\ op = "request"
          /\ IsRequest(req)
          /\ optional_params = req.optional_params
          /\ local_messages = req.messages
          /\ rcall = NoResponseCall
          /\ hcall = NoHookCall
          /\ kwargs = NoHookCall.kwargs
       \/ /\ op = "response"
          /\ rcall \in ResponseCalls
          /\ req = NoRequest
          /\ optional_params = NoRequest.optional_params
          /\ local_messages = <<>>
          /\ hcall = NoHookCall
          /\ kwargs = NoHookCall.kwargs
       \/ /\ op = "hook"
          /\ hcall \in HookCalls
          /\ kwargs = hcall.kwargs
          /\ req = NoRequest
          /\ optional_params = NoRequest.optional_params
          /\ local_messages = <<>>
          /\ rcall = NoResponseCall
       \/ /\ op = "repair"
          /\ RepairRequest(req)
          /\ optional_params = req.optional_params
          /\ local_messages = req.messages
          /\ rcall = NoResponseCall
          /\ hcall = NoHookCall
          /\ kwargs = NoHookCall.kwargs
    /\ caller_messages = req.messages

TransformRequest ==
    /\ pc = "call"
    /\ op = "request"
    /\ data' = transform_request(req)
    /\ optional_params' = CallerParamsAfter(req)
    /\ local_messages' = WorkingMessages(req)
    /\ is_anthropic_format' = IsAnthropicFormat(req)
    /\ caller_messages' = CallerMessagesAfter(req)
    /\ pc' = "returned"
    /\ UNCHANGED <<op, req, rcall, response, hcall, kwargs, hresult, repairs>>

TransformResponse ==
    /\ pc = "call"
    /\ op = "response"
    /\ response' = transform_response(rcall)
    /\ pc' = "returned"
    /\ UNCHANGED <<op, req, data, optional_params, local_messages, is_anthropic_format,
                 rcall, hcall, kwargs, hresult, repairs, caller_messages>>

PreCallDeploymentHook ==
    /\ pc = "call"
    /\ op = "hook"
    /\ hresult' = async_pre_call_deployment_hook(hcall)
    /\ kwargs' = CallerKwargsAfter(hcall)
    /\ pc' = "returned"
    /\ UNCHANGED <<op, req, data, optional_params, local_messages, is_anthropic_format,
                 rcall, response, hcall, repairs, caller_messages>>

\* optional_params = self._sanitize_tool_choice(optional_params)
SanitizeToolChoice ==
    /\ pc = "call"
    /\ op = "repair"
    /\ Len(repairs) < MaxRepairs
    /\ optional_params' = _sanitize_tool_choice(optional_params)
    /\ repairs' = Append(repairs, "sanitize")
    /\ UNCHANGED <<pc, op, req, data, local_messages, is_anthropic_format, rcall, response,
                 hcall, kwargs, hresult, caller_messages>>

\* messages = self._strip_thinking_from_messages(messages)
StripThinkingFromMessages ==
    /\ pc = "call"
    /\ op = "repair"
    /\ Len(repairs) < MaxRepairs
    /\ local_messages' = _strip_thinking_from_messages(local_messages)
    /\ repairs' = Append(repairs, "strip")
    /\ UNCHANGED <<pc, op, req, data, optional_params, is_anthropic_format, rcall,
                 response, hcall, kwargs, hresult, caller_messages>>

Next ==
    \/ TransformRequest
    \/ TransformResponse
    \/ PreCallDeploymentHook
    \/ SanitizeToolChoice
    \/ StripThinkingFromMessages

Spec == Init /\ [][Next]_vars

----------------------------------------------------------------------------
(* Properties. *)

RequestReturned == pc = "returned" /\ op = "request"
ResponseReturned == pc = "returned" /\ op = "response"

\* The request's tool_choice is a mapping with type "tool" whose tool.name is
\* missing or empty
MalformedDirective(tc) == tc.shape = "dict" /\ tc.type = "tool" /\ tc.tool # "named"

\* The request declares at least one tool
DeclaresTools(r) == r.optional_params.tools.kind = "list" /\ r.optional_params.tools.list # <<>>

BlockIsReasoning(msg, j) ==
    msg.content.blocks[j] = "thinking" \/ msg.content.blocks[j] = "redacted_thinking"

\* An assistant message that shows no reasoning evidence
LacksEvidence(msg) ==
    /\ msg.role = "assistant"
    /\ ~msg.thinking_blocks
    /\ \/ msg.content.kind # "list"
       \/ \A j \in 1..Len(msg.content.blocks) : ~BlockIsReasoning(msg, j)

\* No assistant message precedes the current turn
FirstTurn(r) == \A i \in 1..(Len(r.messages) - 1) : r.messages[i].role # "assistant"

\* The model name the client asked for carries the reasoning marker
MarkerInModelName(r) == Contains(Lower(OriginalModel(r)), ThinkingMarker)

\* max_tokens of the payload, 8000 when it has none
PayloadMaxTokens == IF data.max_tokens.present THEN data.max_tokens.value ELSE 8000

\* round(x * 0.5), halves to the even neighbour
RoundHalf(x) ==
    IF x % 2 = 0 THEN x \div 2
    ELSE IF ((x - 1) \div 2) % 2 = 0 THEN (x - 1) \div 2 ELSE (x + 1) \div 2

\* x * 0.5 with the fraction dropped
TruncHalf(x) == IF x % 2 = 0 \/ x > 0 THEN x \div 2 ELSE (x \div 2) + 1

Clamp(v, lo, hi) == IF (IF v < lo THEN lo ELSE v) > hi THEN hi ELSE (IF v < lo THEN lo ELSE v)

\* The case of C4: first turn, no tools, marker in the model name, no
\* thinking configuration supplied
FirstTurnReasoningCase ==
    /\ RequestReturned
    /\ FirstTurn(req)
    /\ ~DeclaresTools(req)
    /\ MarkerInModelName(req)
    /\ ~req.optional_params.thinking.present

\* C1: a tool_choice of type "tool" without a non-empty tool.name never reaches
\* the payload, in either conversion branch: the call returns a payload, and
\* the payload has no tool_choice key.
C1_MalformedToolChoiceDropped ==
    (RequestReturned /\ MalformedDirective(req.optional_params.tool_choice))
        => data.tool_choice.shape = "absent"

C1_Witness ==
    /\ RequestReturned
    /\ req.optional_params.tool_choice = DictToolChoice("tool", "str")
    /\ ~_is_already_anthropic_format(req.messages)
    /\ data.tool_choice.shape = "absent"

\* C2: with a non-empty tool list the payload has no thinking key, whatever
\* the other parameters are.
C2_NoThinkingKeyWithTools ==
    (RequestReturned /\ DeclaresTools(req)) => ~data.thinking.present

\* C3: with a non-empty tool list no assistant message of the payload holds a
\* thinking or redacted_thinking block, in either conversion branch.
C3_NoReasoningBlocksWithTools ==
    (RequestReturned /\ DeclaresTools(req)) =>
        \A i \in 1..Len(data.messages) :
            data.messages[i].role = "assistant" =>
                \A j \in 1..Len(data.messages[i].content.blocks) :
                    ~BlockIsReasoning(data.messages[i], j)

C3_Witness ==
    /\ RequestReturned
    /\ DeclaresTools(req)
    /\ req.messages = <<AssistantRedactedText, AssistantThinking>>
    /\ data.messages[1].content = ListContent(<<"text", "other">>)
    /\ data.messages[2].content = ListContent(<<"text">>)

\* C4 as stated: on a first turn with no tools and a marker in the model name
\* the budget is clamp(round(max_tokens * 0.5), 1024, max_tokens - 100).
C4_BudgetRounded ==
    FirstTurnReasoningCase =>
        data.thinking =
            [present |-> TRUE, type |-> "enabled",
             budget_tokens |-> Clamp(RoundHalf(PayloadMaxTokens), 1024, PayloadMaxTokens - 100)]

\* C4 amended: on a first turn with no tools, a marker in the requested model
\* name and no thinking configuration supplied, thinking is {type: "enabled",
\* budget_tokens: B} with B = clamp(max_tokens * 0.5 truncated to an integer,
\* 1024, max_tokens - 100), the upper limit winning when the limits cross;
\* max_tokens = 8000 gives 4000.
C4_BudgetTruncated ==
    FirstTurnReasoningCase =>
        /\ data.thinking =
              [present |-> TRUE, type |-> "enabled",
               budget_tokens |-> Clamp(TruncHalf(PayloadMaxTokens), 1024, PayloadMaxTokens - 100)]
        /\ PayloadMaxTokens = 8000 => data.thinking.budget_tokens = 4000

C4_Witness ==
    /\ FirstTurnReasoningCase
    /\ data.max_tokens = Int_(4003)
    /\ data.thinking.budget_tokens = 2001

\* C5: a thinking configuration that the transform attaches has
\* 1024 <= budget_tokens <= max_tokens - 100.
C5_BudgetWithinLimits ==
    (RequestReturned /\ ~req.optional_params.thinking.present /\ data.thinking.present) =>
        /\ 1024 <= data.thinking.budget_tokens
        /\ data.thinking.budget_tokens <= PayloadMaxTokens - 100

\* Some assistant message before the current turn shows no reasoning evidence
PriorAssistantLacksEvidence(r) ==
    \E i \in 1..(Len(r.messages) - 1) : LacksEvidence(r.messages[i])

\* C6 as stated: when a prior assistant message lacks reasoning evidence the
\* payload has no thinking key.
C6_NoThinkingKeyWithoutEvidence ==
    (RequestReturned /\ PriorAssistantLacksEvidence(req)) => ~data.thinking.present

\* C6 amended: when a prior assistant message lacks reasoning evidence and the
\* optional parameters declare no thinking configuration, the payload has no
\* thinking key, even with a reasoning marker in the model name or the header.
C6_NoActivationWithoutEvidence ==
    (/\ RequestReturned
     /\ PriorAssistantLacksEvidence(req)
     /\ ~req.optional_params.thinking.present) => ~data.thinking.present

C6_Witness ==
    /\ RequestReturned
    /\ req.messages = <<AssistantToolUse, UserToolResult>>
    /\ ~DeclaresTools(req)
    /\ MarkerInModelName(req)
    /\ req.headers.kind = "list"
    /\ ~req.optional_params.thinking.present
    /\ ~data.thinking.present

\* The beta tokens the tool kinds of a tool list imply
ImpliedBetas(tools) ==
    {b \in {"tool-search-tool-2025-10-19", "web-search-2025-03-05",
            "computer-use-2024-10-22", "computer-use-2025-01-24",
            "computer-use-2025-11-24"} :
        \/ b = "tool-search-tool-2025-10-19" /\ is_tool_search_used(tools)
        \/ b = "web-search-2025-03-05" /\ is_web_search_tool_used(tools)
        \/ /\ is_computer_tool_used(tools) # ""
           /\ b = get_computer_tool_beta_header(is_computer_tool_used(tools))}

AllowList ==
    {"tool-search-tool-2025-10-19", "web-search-2025-03-05",
     "computer-use-2024-10-22", "computer-use-2025-01-24"}

\* C7: the anthropic_beta the transform writes is the set of tokens implied by
\* the detected tool kinds intersected with the allow-list; when that set is
\* empty the transform writes no anthropic_beta (the entry is as supplied).
C7_BetasWithinAllowList ==
    RequestReturned =>
        IF ImpliedBetas(data.tools) \cap AllowList # {}
        THEN data.anthropic_beta =
                 [present |-> TRUE, value |-> ImpliedBetas(data.tools) \cap AllowList]
        ELSE data.anthropic_beta = req.optional_params.anthropic_beta

C7_Witness ==
    /\ RequestReturned
    /\ req.optional_params.tools = ToolList(<<"function", "computer_20251124", "web_search">>)
    /\ data.anthropic_beta = [present |-> TRUE, value |-> {"web-search-2025-03-05"}]

\* C8: for every choice with a message, empty content and non-empty reasoning
\* content give content = reasoning content; non-empty content is unchanged;
\* with both empty the content stays empty.
C8_ReasoningCopiedIntoEmptyContent ==
    ResponseReturned =>
        /\ Len(response.choices) = Len(rcall.base.choices)
        /\ \A i \in 1..Len(response.choices) :
              LET before == rcall.base.choices[i]
                  after == response.choices[i]
                  empty == before.content.kind = "none" \/ before.content.text = ""
                  reasoned == before.reasoning.kind = "str" /\ before.reasoning.text # ""
              IN /\ (before.has_message /\ empty /\ reasoned) =>
                        (after.content.kind = "str" /\ after.content.text = before.reasoning.text)
                 /\ ~empty => after.content = before.content
                 /\ (empty /\ ~reasoned) => after.content = before.content

C8_Witness ==
    /\ ResponseReturned
    /\ Len(rcall.base.choices) > 0
    /\ rcall.base.choices[1].has_message
    /\ rcall.base.choices[1].content.kind = "none"
    /\ rcall.base.choices[1].reasoning.text = "because"
    /\ response.choices[1].content = [kind |-> "str", text |-> "because"]

\* C9: the payload never has a model key, in either conversion branch, also
\* when the optional parameters carry a model entry.
C9_NoModelKey == RequestReturned => ~data.model.present

C9_Witness ==
    /\ RequestReturned
    /\ req.optional_params.model.present
    /\ _is_already_anthropic_format(req.messages)
    /\ ~data.model.present

\* C10 as stated: the response's model is the client-requested name carried in
\* call metadata.
C10_ModelIsRequestedName ==
    ResponseReturned => response.model = OriginalModel(rcall)

\* C10 amended: the response's model is the model argument of
\* transform_response, also when it differs from the name in call metadata
\* and from the identifier the provider reported.
C10_ModelIsArgument == ResponseReturned => response.model = rcall.model

C10_Witness ==
    /\ ResponseReturned
    /\ rcall.litellm_params.model.present
    /\ rcall.litellm_params.model.value # rcall.model
    /\ rcall.base.model # rcall.model
    /\ response.model = rcall.model


\* A block of one of the provider's own structured types
StructuredBlock(b) == b = "tool_use" \/ b = "tool_result" \/ b = "thinking"

\* Some message has list content holding a structured block
HasStructuredBlock(msgs) ==
    \E i \in 1..Len(msgs) :
        /\ msgs[i].content.kind = "list"
        /\ \E j \in 1..Len(msgs[i].content.blocks) : StructuredBlock(msgs[i].content.blocks[j])

\* C11: the classifier answers true exactly when some message it is given has
\* list content with a tool_use, tool_result or thinking block; string or
\* absent content and blocks of other types (text, redacted_thinking) leave
\* the sequence generic.
C11_ClassifierRule ==
    RequestReturned => (is_anthropic_format <=> HasStructuredBlock(local_messages))

C11_Witness ==
    /\ RequestReturned
    /\ local_messages = <<AssistantRedactedText, AssistantToolCalls>>
    /\ ~is_anthropic_format


HookReturned == pc = "returned" /\ op = "hook"

\* v begins with the characters of p
BeginsWith(v, p) == Len(v) >= Len(p) /\ \A i \in 1..Len(p) : v[i] = p[i]

\* What a string identifier becomes: the normalizer's result, with the
\* required prefix in front exactly when the result does not begin with it
ExpectedId(h, v) ==
    LET n == Normalizer(h, v)
        p == h.required_prefix.value
    IN IF h.required_prefix.present /\ Len(p) > 0 /\ ~BeginsWith(n, p) THEN p \o n ELSE n

\* What a kwargs value under file_id or file_ids becomes
ExpectedValue(h, before, after) ==
    CASE before.kind = "str" -> after = StrValue(ExpectedId(h, before.str))
      [] before.kind = "list" ->
           /\ after.kind = "list"
           /\ Len(after.items) = Len(before.items)
           /\ \A i \in 1..Len(before.items) :
                 IF before.items[i].is_str
                 THEN after.items[i] = StrItem(ExpectedId(h, before.items[i].str))
                 ELSE after.items[i] = before.items[i]
      [] OTHER -> after = before

\* C13: after the hook file_id and every string element of file_ids are the
\* normalized originals, prefixed exactly when they lack the prefix; file_ids
\* keeps its length and order; other elements and keys are unchanged; the
\* caller's kwargs are not modified and are what is returned when nothing
\* changed.
C13_FileIdsNormalized ==
    HookReturned =>
        /\ ExpectedValue(hcall, hcall.kwargs.file_id, hresult.kwargs.file_id)
        /\ ExpectedValue(hcall, hcall.kwargs.file_ids, hresult.kwargs.file_ids)
        /\ hresult.kwargs.model = hcall.kwargs.model
        /\ kwargs = hcall.kwargs
        /\ (hresult.kwargs = hcall.kwargs) => hresult.same_object

C13_Witness ==
    /\ HookReturned
    /\ hcall.required_prefix = Name(<<"t", "_">>)
    /\ hcall.normalizer = "strip"
    /\ hcall.kwargs.file_id = StrValue(IdPadded)
    /\ hcall.kwargs.file_ids =
           ListValue(<<StrItem(IdPaddedPrefixed), OtherItem(<<"7">>) >>)
    /\ hresult.kwargs.file_id = StrValue(<<"t", "_", "1">>)
    /\ hresult.kwargs.file_ids = ListValue(<<StrItem(IdPrefixed), OtherItem(<<"7">>) >>)
    /\ kwargs = hcall.kwargs


\* The model name that signals reasoning: the one in the body of the proxied
\* request, else the one in the call metadata, else the resolved one
RequestedName(r) ==
    CASE r.litellm_params.body_model.present -> r.litellm_params.body_model.value
      [] r.litellm_params.model.present -> r.litellm_params.model.value
      [] OTHER -> r.model

\* The text of the anthropic-beta header
HeaderText(r) ==
    CASE r.headers.kind = "str" -> r.headers.str
      [] r.headers.kind = "list" -> Join(r.headers.list)
      [] OTHER -> <<>>

\* The requested model name or the anthropic-beta header carries the marker
ReasoningSignal(r) ==
    \/ Contains(Lower(RequestedName(r)), ThinkingMarker)
    \/ Contains(Lower(HeaderText(r)), ThinkingMarker)

\* C14: without tools and without a thinking configuration supplied, no
\* signal means no thinking key, and on a first turn the thinking key is there
\* exactly when the requested model name from the call metadata (which wins
\* over the resolved name) or the anthropic-beta header carries "thinking",
\* in any letter case.
C14_ActivationFollowsSignal ==
    (RequestReturned /\ ~DeclaresTools(req) /\ ~req.optional_params.thinking.present) =>
        /\ ~ReasoningSignal(req) => ~data.thinking.present
        /\ FirstTurn(req) => (data.thinking.present <=> ReasoningSignal(req))

C14_Witness ==
    /\ RequestReturned
    /\ ~DeclaresTools(req)
    /\ ~req.optional_params.thinking.present
    /\ FirstTurn(req)
    /\ req.model = NameThinking
    /\ req.litellm_params.model = Name(NamePlain)
    /\ ~req.litellm_params.body_model.present
    /\ req.headers.kind = "absent"
    /\ ~data.thinking.present

\* Every assistant message before the current turn shows reasoning evidence
EveryPriorAssistantShowsEvidence(r) ==
    \A i \in 1..(Len(r.messages) - 1) : ~LacksEvidence(r.messages[i])

\* C15: without tools, with reasoning requested and no thinking configuration
\* supplied, thinking of type "enabled" is attached whenever every assistant
\* message before the current turn shows reasoning evidence; messages of
\* other roles do not count.
C15_ActivatedWhenHistoryShowsEvidence ==
    (/\ RequestReturned
     /\ ~DeclaresTools(req)
     /\ ~req.optional_params.thinking.present
     /\ ReasoningSignal(req)
     /\ EveryPriorAssistantShowsEvidence(req)) =>
        data.thinking.present /\ data.thinking.type = "enabled"

C15_Witness ==
    /\ RequestReturned
    /\ ~DeclaresTools(req)
    /\ ~req.optional_params.thinking.present
    /\ req.messages =
          <<SystemText, UserText, AssistantThinkingField, ToolText, UserThinking, UserText>>
    /\ data.thinking.present
    /\ data.thinking.type = "enabled"

\* C16: without tools, a thinking configuration supplied with the request is
\* in the payload exactly as supplied, whatever the history and the limits.
C16_SuppliedThinkingKept ==
    (RequestReturned /\ ~DeclaresTools(req) /\ req.optional_params.thinking.present) =>
        data.thinking = req.optional_params.thinking

C16_Witness ==
    /\ RequestReturned
    /\ ~DeclaresTools(req)
    /\ req.optional_params.thinking = Thinking(10)
    /\ PriorAssistantLacksEvidence(req)
    /\ ReasoningSignal(req)
    /\ data.thinking = Thinking(10)


\* The named repair was applied at least once
Applied(repair) == op = "repair" /\ \E i \in 1..Len(repairs) : repairs[i] = repair

\* C17: once a repair was applied, applying it again changes nothing; and
\* whatever the order in which both were applied, the tool_choice is present
\* or absent, and the messages are, as after one application of each to the
\* original request.
C17_RepairsIdempotentAnyOrder ==
    /\ Applied("sanitize") => _sanitize_tool_choice(optional_params) = optional_params
    /\ Applied("strip") => _strip_thinking_from_messages(local_messages) = local_messages
    /\ (Applied("sanitize") /\ Applied("strip")) =>
          /\ (optional_params.tool_choice.shape = "absent")
                <=> (_sanitize_tool_choice(req.optional_params).tool_choice.shape = "absent")
          /\ local_messages = _strip_thinking_from_messages(req.messages)

C17_Witness ==
    /\ op = "repair"
    /\ repairs = <<"strip", "sanitize", "strip">>
    /\ req.messages = <<AssistantTwoReasoning, UserText>>
    /\ req.optional_params.tool_choice = DictToolChoice("tool", "emptyname")
    /\ optional_params.tool_choice = AbsentToolChoice
    /\ local_messages[1].content = ListContent(<<"text">>)

\* The blocks of a list that are not reasoning blocks, in their order
RECURSIVE OtherBlocks(_)
OtherBlocks(blocks) ==
    IF blocks = <<>> THEN <<>>
    ELSE IF Head(blocks) = "thinking" \/ Head(blocks) = "redacted_thinking"
    THEN OtherBlocks(Tail(blocks))
    ELSE <<Head(blocks)>> \o OtherBlocks(Tail(blocks))

\* What one message is after the strip
StrippedAs(before, after) ==
    IF before.role # "assistant" \/ before.content.kind # "list"
    THEN after = before
    ELSE /\ after.role = before.role
         /\ after.thinking_blocks = before.thinking_blocks
         /\ after.tool_calls = before.tool_calls
         /\ IF OtherBlocks(before.content.blocks) = <<>> /\ before.content.blocks # <<>>
            THEN after.content.kind = "str" /\ after.content.text = ""
            ELSE /\ after.content.kind = "list"
                 /\ after.content.blocks = OtherBlocks(before.content.blocks)

\* C18: the strip keeps length and order; messages of other roles and
\* messages with string content are unchanged; an assistant message with list
\* content keeps its other blocks in order, and its content is the empty
\* string, not absent, when all its blocks were reasoning blocks.
C18_StripFrame ==
    (op = "repair" /\ repairs = <<"strip">>) =>
        /\ Len(local_messages) = Len(req.messages)
        /\ \A i \in 1..Len(req.messages) : StrippedAs(req.messages[i], local_messages[i])

C18_Witness ==
    /\ op = "repair"
    /\ repairs = <<"strip">>
    /\ req.messages = <<AssistantRedacted, AssistantRedactedText>>
    /\ local_messages[1].content = StrContent("")
    /\ local_messages[2].content = ListContent(<<"text", "other">>)


\* The only structured blocks of the messages are thinking blocks of
\* assistant messages, and there is one
OnlyAssistantThinkingStructured(msgs) ==
    /\ HasStructuredBlock(msgs)
    /\ \A i \in 1..Len(msgs) :
          msgs[i].content.kind = "list" =>
              \A j \in 1..Len(msgs[i].content.blocks) :
                  StructuredBlock(msgs[i].content.blocks[j]) =>
                      msgs[i].role = "assistant" /\ msgs[i].content.blocks[j] = "thinking"

\* A structured block that the stripping for tools leaves in place
StructuredBlockLeft(r) ==
    \E i \in 1..Len(r.messages) :
        /\ r.messages[i].content.kind = "list"
        /\ \E j \in 1..Len(r.messages[i].content.blocks) :
              \/ r.messages[i].content.blocks[j] \in {"tool_use", "tool_result"}
              \/ /\ r.messages[i].content.blocks[j] = "thinking"
                 /\ ~DeclaresTools(r) \/ r.messages[i].role # "assistant"

\* C19 as stated: the branch of the converter is chosen by the classifier's
\* answer on the inbound messages, before reasoning blocks are stripped.
C19_ClassifiedBeforeStrip ==
    RequestReturned => (is_anthropic_format <=> HasStructuredBlock(req.messages))

\* C19 amended: the branch is chosen by the classifier's answer on the
\* messages after the stripping that a declared tool causes, so a request
\* that declares tools and whose only structured blocks are thinking blocks
\* of assistant messages takes the generic branch.
C19_ClassifiedAfterStrip ==
    RequestReturned =>
        /\ is_anthropic_format <=> StructuredBlockLeft(req)
        /\ (DeclaresTools(req) /\ OnlyAssistantThinkingStructured(req.messages))
              => ~is_anthropic_format

C19_Witness ==
    /\ RequestReturned
    /\ req.optional_params.tools = ToolList(<<"function">>)
    /\ req.messages = <<AssistantThinking, UserText>>
    /\ OnlyAssistantThinkingStructured(req.messages)
    /\ ~is_anthropic_format

\* The messages whose role is not system, in their order
RECURSIVE WithoutSystem(_)
WithoutSystem(msgs) ==
    IF msgs = <<>> THEN <<>>
    ELSE IF Head(msgs).role = "system" THEN WithoutSystem(Tail(msgs))
    ELSE <<Head(msgs)>> \o WithoutSystem(Tail(msgs))

\* C20: in the already-structured branch the payload's messages are the
\* sanitized messages without those of role system, unchanged and in order;
\* max_tokens is the caller's when the caller set it and the configured
\* default only otherwise; a user_id of the call metadata is the payload's
\* metadata.user_id.
C20_StructuredBranchFrame ==
    (RequestReturned /\ is_anthropic_format) =>
        /\ data.messages = WithoutSystem(local_messages)
        /\ \A i \in 1..Len(data.messages) : data.messages[i].role # "system"
        /\ req.optional_params.max_tokens.present
              => data.max_tokens = req.optional_params.max_tokens
        /\ ~req.optional_params.max_tokens.present => data.max_tokens = req.config.max_tokens
        /\ req.litellm_params.user_id # "" =>
              data.metadata = [present |-> TRUE, user_id |-> req.litellm_params.user_id]

C20_Witness ==
    /\ RequestReturned
    /\ is_anthropic_format
    /\ req.messages =
          <<SystemText, UserText, SystemText, AssistantToolUse, UserToolResult, UserText>>
    /\ req.optional_params.max_tokens = Int_(8000)
    /\ req.config = DefaultConfig
    /\ req.litellm_params.user_id = "u1"
    /\ data.messages = <<UserText, AssistantToolUse, UserToolResult, UserText>>
    /\ data.max_tokens = Int_(8000)
    /\ data.metadata.user_id = "u1"


\* C21: once transform_request has returned, the caller's optional_params has
\* the keys and values it had before the call, and the caller's messages and
\* each message in them are as before, in both branches and with or without a
\* repair.
C21_ArgumentsUnchanged ==
    RequestReturned =>
        /\ optional_params = req.optional_params
        /\ caller_messages = req.messages

====
